---- MODULE Spec2Model ----
(***************************************************************************)
(* Reliable-UDP file transfer: the selective-repeat sender of              *)
(* codes/udp_sender.c and the receiver of codes/udp_receiver.c, with the   *)
(* datagram transport between them.                                        *)
(*                                                                         *)
(* One sender and one receiver run with the same payload size.  The two    *)
(* directions of the transport are bags of datagrams in flight, delivered  *)
(* in any order.  Two transports are modelled.  The lossy one (Spec) may   *)
(* deliver a datagram that was sent any number of times, or never: a       *)
(* delivery leaves the datagram in flight and a wait may time out at any   *)
(* moment, which covers loss, duplication, reordering and delay.  The      *)
(* loss-free one (SpecLF) delivers every datagram exactly once, and a wait *)
(* times out only when nothing is on its way.                              *)
(* A third one (SpecInject) is the loss-free transport on which stray      *)
(* datagrams turn up: copies, datagrams of other hosts, datagrams cut      *)
(* short.                                                                  *)
(*                                                                         *)
(* sent_ts[] and the clock are not state: whether a segment's timer has    *)
(* expired is a choice of the environment, except that after a receive     *)
(* wait that timed out every timer of the window has expired, and that the *)
(* timer of a segment never sent (sent_ts = 0.0) has always expired.       *)
(***************************************************************************)
EXTENDS Integers, Sequences, FiniteSets, Bags, TLC

\* ---------------------------------------------------------------- bounds

\* payload bytes per segment (payload_max, scaled down from mtu - 28 - 7)
payload_max == 2
\* largest source file, in bytes
MaxBytes == 5
\* largest window (--win)
MaxWin == 2
\* largest retry cap (--retries)
MaxRetries == 2
\* stray datagrams in one session
MaxInject == 1

\* ------------------------------------------------------ program constants

PKT_DATA == 1
PKT_START == 2
PKT_END == 3
PKT_ACK == 16
\* sizeof(pkt_hdr_t)
HDR == 7
\* sizeof(ack_payload_t)
ACK_PAYLOAD == 12
\* sizeof(uint64_t), the START payload
START_PAYLOAD == 8
\* width of sack_mask in bits
SACK_BITS == 64

\* ------------------------------------------------------------ wire codec

RECURSIVE BytesBE(_, _)
\* htons / htonl / htonll: the n low-order bytes of v, most significant first
BytesBE(v, n) ==
    IF n = 0 THEN << >> ELSE Append(BytesBE(v \div 256, n - 1), v % 256)

RECURSIVE FromBE(_)
\* ntohs / ntohl / ntohll: the value of a big-endian byte string
FromBE(b) ==
    IF Len(b) = 0 THEN 0
    ELSE FromBE(SubSeq(b, 1, Len(b) - 1)) * 256 + b[Len(b)]

RECURSIVE BitSet(_, _)
\* mask & (1ULL << i)
BitSet(mask, i) ==
    IF mask = 0 THEN FALSE
    ELSE IF i = 0 THEN mask % 2 = 1
    ELSE BitSet(mask \div 2, i - 1)

Min(a, b) == IF a < b THEN a ELSE b

\* ------------------------------------------------------------- segmenter

\* total_segs = (total + payload_max - 1) / payload_max
SegCount(total) == (total + payload_max - 1) \div payload_max

\* offset of segment s in the file
SegOffset(s) == (s - 1) * payload_max

\* len of segment s of a file of `total` bytes
SegLen(s, total) == Min(payload_max, total - SegOffset(s))

\* fm.base[i] on the sender: byte i of the input file (all bytes distinct
\* and different from the zero fill of the output file)
SourceByte(i) == (i % 255) + 1

\* the bytes fm.base + offset .. + len handed to sendmsg
SourceBytes(off, len) == [j \in 1..len |-> SourceByte(off + j - 1)]

\* --------------------------------------------------------------- packets

\* a datagram: the 7-byte header and the payload that follows it.  `re` is
\* not on the wire: it records which packet kind an ACK answers.  `from` is
\* the source address as recvfrom reports it.
Packet(type, seq, len, body, re) ==
    [type |-> type, seq |-> BytesBE(seq, 4), len |-> BytesBE(len, 2),
     body |-> body, re |-> re,
     from |-> IF type = PKT_ACK THEN "receiver" ELSE "sender"]

StartPacket(total) ==
    Packet(PKT_START, 0, START_PAYLOAD, BytesBE(total, START_PAYLOAD), "-")

DataPacket(s, total) ==
    Packet(PKT_DATA, s, SegLen(s, total),
           SourceBytes(SegOffset(s), SegLen(s, total)), "-")

EndPacket(n) == Packet(PKT_END, n + 1, 0, << >>, "-")

\* send_ack_sack, and the START-ACK built inline
AckPacket(cum, mask, re) ==
    Packet(PKT_ACK, 0, ACK_PAYLOAD, BytesBE(cum, 4) \o BytesBE(mask, 8), re)

\* bytes of the datagram as recv()/recvfrom() returns them
DatagramSize(p) == HDR + Len(p.body)

\* ----------------------------------------------------------------- state

VARIABLES
    total_bytes,    \* sender: fm.size, the length of the input file
    win,            \* sender: window
    retries,        \* sender: retry cap
    spc,            \* sender: position in main
    t,              \* sender: loop counter of the START and END loops
    base,           \* sender: first unacked seq
    next_to_send,   \* sender: next seq to transmit
    acked,          \* sender: acked[1..total_segs]
    tx_cnt,         \* sender: tx_cnt[1..total_segs]
    handed,         \* history: DATA datagrams of each seq the transport took
    rpc,            \* receiver: "loop", or how main ended
    started,        \* receiver: started
    expected_total, \* receiver: expected_total
    rx_total_segs,  \* receiver: total_segs
    cum_ack,        \* receiver: cum_ack
    have,           \* receiver: have[1..total_segs]
    received,       \* receiver: received
    sink,           \* receiver: the mapped output file, sink[i+1] = byte i
    s2r,            \* datagrams in flight, sender to receiver
    r2s,            \* datagrams in flight, receiver to sender
    endAckLost,     \* history: the ACK answering an END was dropped
    r2x,            \* datagrams the receiver sent to hosts other than the sender
    injected        \* history: datagrams other hosts have put on the wire

vars == << total_bytes, win, retries, spc, t, base, next_to_send, acked,
           tx_cnt, handed, rpc, started, expected_total, rx_total_segs,
           cum_ack, have, received, sink, s2r, r2s, endAckLost, r2x,
           injected >>

senderVars == << spc, t, base, next_to_send, acked, tx_cnt, handed >>
receiverVars == << rpc, started, expected_total, rx_total_segs, cum_ack,
                   have, received, sink >>
paramVars == << total_bytes, win, retries >>

\* sender: total_segs
total_segs == SegCount(total_bytes)

\* the state after both mains have set up, before the first START is sent
Init ==
    /\ total_bytes \in 1..MaxBytes
    /\ win \in 1..MaxWin
    /\ retries \in 1..MaxRetries
    /\ spc = "hs_send"
    /\ t = 0
    /\ base = 1
    /\ next_to_send = 1
    /\ acked = [s \in 1..SegCount(total_bytes) |-> FALSE]
    /\ tx_cnt = [s \in 1..SegCount(total_bytes) |-> 0]
    /\ handed = [s \in 1..SegCount(total_bytes) |-> 0]
    /\ rpc = "loop"
    /\ started = FALSE
    /\ expected_total = 0
    /\ rx_total_segs = 0
    /\ cum_ack = 0
    /\ have = << >>
    /\ received = 0
    /\ sink = << >>
    /\ s2r = EmptyBag
    /\ r2s = EmptyBag
    /\ endAckLost = FALSE
    /\ r2x = EmptyBag
    /\ injected = 0


\* ------------------------------------------------------------- transport

\* the transport takes the datagrams of the set P.  The lossy transport
\* keeps one copy of each datagram, which it may deliver again and again.
Put(adv, ch, P) ==
    IF adv THEN SetToBag(BagToSet(ch) \cup P) ELSE ch (+) SetToBag(P)

\* the transport delivers datagram p
Take(adv, ch, p) == IF adv THEN ch ELSE ch (-) SetToBag({p})

\* sendmsg()/send(): the datagram is in flight unless the call failed
Send(adv, ch, p, ok) == IF ok THEN Put(adv, ch, {p}) ELSE ch

\* sendmsg() of the DATA datagrams of the segments in S
SendData(adv, ch, S) == Put(adv, ch, {DataPacket(s, total_bytes) : s \in S})

\* results a send call may have: it may fail only where adv allows
SendResults(adv) == IF adv THEN BOOLEAN ELSE {TRUE}

\* sets of sends that fail, out of the sends of the segments in S
SendFailures(adv, S) == IF adv THEN SUBSET S ELSE {{}}

\* nothing is on its way to a peer that would answer: only then does a
\* receive wait of a timely transport run out
Quiet == r2s = EmptyBag /\ (s2r = EmptyBag \/ rpc # "loop")

\* recv() may return with the timeout SO_RCVTIMEO set
MayTimeOut(adv) == adv \/ Quiet

\* ----------------------------------------------------------------- sender

\* r >= sizeof(pkt_hdr_t) && ah->type == PKT_ACK (START and END loops)
IsAck(a) == DatagramSize(a) >= HDR /\ a.type = PKT_ACK

\* ... && ntohs(ah->len) == sizeof(ack_payload_t) (bulk loop)
IsBulkAck(a) == IsAck(a) /\ FromBE(a.len) = ACK_PAYLOAD

\* ntohl(ap.cum_ack) and ntohll(ap.sack_mask) of the 12 bytes after the header
AckCum(a) == FromBE(SubSeq(a.body, 1, 4))
AckMask(a) == FromBE(SubSeq(a.body, 5, 12))

\* abuf as step 2 reads it: memcpy takes sizeof(ack_payload_t) bytes after
\* the header whatever recv returned; the bytes beyond the datagram are stale
\* (the payload of some earlier ACK, or what the stack held)
AckRead(a) ==
    IF Len(a.body) >= ACK_PAYLOAD THEN {a}
    ELSE { [a EXCEPT !.body = a.body \o SubSeq(BytesBE(c, 4) \o BytesBE(m, 8),
                                              Len(a.body) + 1, ACK_PAYLOAD)] :
             c \in 0..total_segs, m \in 0..1 }

\* mutant: acked[] is rebuilt from the ACK, what was acked before is lost
AckUpToOnly_Mut(ack, b, cum) == [s \in DOMAIN ack |-> b <= s /\ s <= cum]

\* mutant: the segment after cum is acked too
AckUpTo_Mut(ack, b, cum) ==
    [s \in DOMAIN ack |-> ack[s] \/ (b <= s /\ s <= cum + 1)]

\* ack all <= cum: for (s = base; s <= cum && s <= total_segs; ++s)
AckUpTo(ack, b, cum) ==
    [s \in DOMAIN ack |-> ack[s] \/ (b <= s /\ s <= cum)]

\* mutant: bit i of the mask taken for segment cum + i
AckMasked_Mut(ack, cum, mask) ==
    [s \in DOMAIN ack |->
        \/ ack[s]
        \/ /\ s - cum \in 0..(SACK_BITS - 1)
           /\ BitSet(mask, s - cum)]

\* ack masked beyond cum: s = cum + 1 + i for every bit i of the mask
AckMasked(ack, cum, mask) ==
    [s \in DOMAIN ack |->
        \/ ack[s]
        \/ /\ s - (cum + 1) \in 0..(SACK_BITS - 1)
           /\ BitSet(mask, s - (cum + 1))]

RECURSIVE AdvanceBase(_, _)
\* while (base <= total_segs && acked[base]) base++
AdvanceBase(ack, b) ==
    IF b \in DOMAIN ack /\ ack[b] THEN AdvanceBase(ack, b + 1) ELSE b

\* the whole of step 2 on one datagram: acked[] and base afterwards
AckedAfter(ack, b, a) ==
    IF IsBulkAck(a)
    THEN AckMasked(AckUpTo(ack, b, AckCum(a)), AckCum(a), AckMask(a))
    ELSE ack

BaseAfter(ack, b, a) ==
    IF IsBulkAck(a)
    THEN AdvanceBase(AckedAfter(ack, b, a),
                     AdvanceBase(AckUpTo(ack, b, AckCum(a)), b))
    ELSE b

\* mutant: one transmission too many before giving up
Exhausted_Mut(cnt, s) == cnt[s] > retries

\* tx_cnt[s] >= retries
Exhausted(cnt, s) == cnt[s] >= retries

\* mutant: one attempt more than retries
RetryOrFail_Mut(again) ==
    IF t = retries
    THEN /\ spc' = "failed"
         /\ t' = t
    ELSE /\ spc' = again
         /\ t' = t + 1

\* the loops "for (t = 0; t < retries; ++t)" after a wait with no ACK
RetryOrFail(again) ==
    IF t = retries - 1
    THEN /\ spc' = "failed"
         /\ t' = t
    ELSE /\ spc' = again
         /\ t' = t + 1

\* START handshake: sendmsg of START
HsSendEnv(adv) ==
    /\ spc = "hs_send"
    /\ \E ok \in SendResults(adv) : s2r' = Send(adv, s2r, StartPacket(total_bytes), ok)
    /\ spc' = "hs_recv"
    /\ UNCHANGED << t, base, next_to_send, acked, tx_cnt, handed >>
    /\ UNCHANGED << paramVars, receiverVars, r2s, endAckLost, r2x, injected >>

\* START handshake: recv, then break on any ACK or the retry test
HsRecvEnv(adv) ==
    /\ spc = "hs_recv"
    /\ \/ \E a \in BagToSet(r2s) :
             /\ r2s' = Take(adv, r2s, a)
             /\ IF IsAck(a)
                THEN spc' = "emit" /\ t' = t
                ELSE RetryOrFail("hs_send")
       \/ /\ MayTimeOut(adv)
          /\ r2s' = r2s
          /\ RetryOrFail("hs_send")
    /\ UNCHANGED << base, next_to_send, acked, tx_cnt, handed >>
    /\ UNCHANGED << paramVars, receiverVars, s2r, endAckLost, r2x, injected >>

\* mutant: the window test lets one segment more through
NewSegments_Mut == { s \in next_to_send..total_segs : s - base <= win }

\* the segments step 1 sends: next_to_send onwards while inside the window
NewSegments == { s \in next_to_send..total_segs : s - base < win }

\* bulk loop, step 1: send new within window
EmitEnv(adv) ==
    /\ spc = "emit"
    /\ \E F \in SendFailures(adv, NewSegments) :
          /\ s2r' = SendData(adv, s2r, NewSegments \ F)
          /\ tx_cnt' = [s \in DOMAIN tx_cnt |->
                          IF s \in NewSegments \ F THEN tx_cnt[s] + 1 ELSE tx_cnt[s]]
          /\ handed' = [s \in DOMAIN handed |->
                          IF s \in NewSegments \ F THEN handed[s] + 1 ELSE handed[s]]
    /\ next_to_send' = next_to_send + Cardinality(NewSegments)
    /\ spc' = "recv"
    /\ UNCHANGED << t, base, acked >>
    /\ UNCHANGED << paramVars, receiverVars, r2s, endAckLost, r2x, injected >>

\* step 3 on the window left by step 2.  timedOut: the wait of step 2 ran
\* out, so every timer has expired; otherwise E is what the clock says.
\* The walk is ascending and stops at the first exhausted segment.
Retransmit(adv, ack, b, timedOut) ==
    LET U == { s \in b..(next_to_send - 1) : s \in DOMAIN ack /\ ~ack[s] }
        X == { s \in U : Exhausted(tx_cnt, s) }
        Before(s) == \A x \in X : s < x
    IN  \E E \in SUBSET U :
          /\ timedOut => E = U
          /\ \A s \in U : tx_cnt[s] = 0 => s \in E
          /\ LET Re == { s \in E : Before(s) }
             IN  \E F \in SendFailures(adv, Re) :
                   /\ s2r' = SendData(adv, s2r, Re \ F)
                   /\ tx_cnt' = [s \in DOMAIN tx_cnt |->
                                   IF s \in Re THEN tx_cnt[s] + 1 ELSE tx_cnt[s]]
                   /\ handed' = [s \in DOMAIN handed |->
                                   IF s \in Re \ F THEN handed[s] + 1 ELSE handed[s]]
          /\ IF X # {}
             THEN spc' = "failed" /\ t' = t
             ELSE IF b <= total_segs
                  THEN spc' = "emit" /\ t' = t
                  ELSE spc' = "end_send" /\ t' = 0

\* bulk loop, steps 2 and 3: receive one ACK or time out, then retransmit
BulkRecvEnv(adv) ==
    /\ spc = "recv"
    /\ \/ \E a \in BagToSet(r2s) : \E v \in AckRead(a) :
             /\ r2s' = Take(adv, r2s, a)
             /\ acked' = AckedAfter(acked, base, v)
             /\ base' = BaseAfter(acked, base, v)
             /\ Retransmit(adv, AckedAfter(acked, base, v),
                           BaseAfter(acked, base, v), FALSE)
       \/ /\ MayTimeOut(adv)
          /\ r2s' = r2s
          /\ acked' = acked
          /\ base' = base
          /\ Retransmit(adv, acked, base, TRUE)
    /\ UNCHANGED next_to_send
    /\ UNCHANGED << paramVars, receiverVars, endAckLost, r2x, injected >>

\* END loop: send of END, seq = total_segs + 1
EndSendEnv(adv) ==
    /\ spc = "end_send"
    /\ \E ok \in SendResults(adv) : s2r' = Send(adv, s2r, EndPacket(total_segs), ok)
    /\ spc' = "end_recv"
    /\ UNCHANGED << t, base, next_to_send, acked, tx_cnt, handed >>
    /\ UNCHANGED << paramVars, receiverVars, r2s, endAckLost, r2x, injected >>

\* END loop: recv, then break on any ACK or the retry test
EndRecvEnv(adv) ==
    /\ spc = "end_recv"
    /\ \/ \E a \in BagToSet(r2s) :
             /\ r2s' = Take(adv, r2s, a)
             /\ IF IsAck(a)
                THEN spc' = "done" /\ t' = t
                ELSE RetryOrFail("end_send")
       \/ /\ MayTimeOut(adv)
          /\ r2s' = r2s
          /\ RetryOrFail("end_send")
    /\ UNCHANGED << base, next_to_send, acked, tx_cnt, handed >>
    /\ UNCHANGED << paramVars, receiverVars, s2r, endAckLost, r2x, injected >>


\* --------------------------------------------------------------- receiver

\* fmap_open_wo: the output file pre-sized to `size` bytes, zero filled
NewSink(size) == [i \in 1..size |-> 0]

\* what a byte of a receive buffer may hold beyond the bytes of the datagram
\* just received: an earlier datagram's byte, or what the allocation held
StaleBytes == {0, 255}

\* the len bytes memcpy takes from buf + HDR: the payload bytes received,
\* then, when the datagram is shorter than its len field says, stale bytes
CopiedBytes(p, len) ==
    { [j \in 1..len |-> IF j <= Len(p.body) THEN p.body[j] ELSE pad[j]] :
        pad \in [1..len -> IF len > Len(p.body) THEN StaleBytes ELSE {0}] }

\* mutant: the payload is written where the previous write ended
WriteAt_Mut(snk, off, bytes) ==
    [i \in 1..Len(snk) |->
        IF received < i /\ i <= received + Len(bytes)
        THEN bytes[i - received]
        ELSE snk[i]]

\* memcpy(fm.base + off, buf + HDR, len)
WriteAt(snk, off, bytes) ==
    [i \in 1..Len(snk) |->
        IF off < i /\ i <= off + Len(bytes) THEN bytes[i - off] ELSE snk[i]]

\* mutant: cum_ack counts the segments accepted, contiguous or not
AdvanceCum_Mut(hv, cum, n) == IF cum < n THEN cum + 1 ELSE cum

RECURSIVE AdvanceCum(_, _, _)
\* while (cum_ack < total_segs && have[cum_ack + 1]) cum_ack++
AdvanceCum(hv, cum, n) ==
    IF cum < n /\ hv[cum + 1] THEN AdvanceCum(hv, cum + 1, n) ELSE cum

RECURSIVE MaskFrom(_, _, _, _)
\* bits i..63 of the mask, shifted down by i: bit i is set when
\* s = cum + 1 + i has s <= total_segs && have[s]; no bit is set from the
\* first s beyond total_segs on
MaskFrom(hv, cum, n, i) ==
    IF i >= SACK_BITS \/ cum + 1 + i > n THEN 0
    ELSE (IF hv[cum + 1 + i] THEN 1 ELSE 0) + 2 * MaskFrom(hv, cum, n, i + 1)

\* build sack mask for next 64 seqs beyond cum_ack
SackMask(hv, cum, n) == MaskFrom(hv, cum, n, 0)

\* mutant: every ACK reports cum_ack 0
ReportedCum_Mut(cum) == 0

\* the cum_ack an ACK reports
ReportedCum(cum) == cum

\* mutant: have[] keeps the last segment accepted only
HaveAfter_Mut(hv, seq) == [s \in DOMAIN hv |-> s = seq]

\* have[] after DATA seq was accepted
HaveAfter(hv, seq) == [hv EXCEPT ![seq] = TRUE]

\* mutant: every START re-initialises the session
StartOpens_Mut(isStarted) == TRUE

\* START re-initialises the session only if (!started)
StartOpens(isStarted) == ~isStarted

\* mutant: cum_ack compared with the seq of END, total_segs + 1
EndFinishes_Mut(cum, n) == cum = n + 1

\* END: if (cum_ack == total_segs) finished = 1
EndFinishes(cum, n) == cum = n

\* the return of main after the loop
ExitCode(expected, got) ==
    IF expected # 0 /\ got # expected THEN "exit1" ELSE "exit0"

RxUnchanged == UNCHANGED << receiverVars, r2s, r2x >>

\* sendmsg with msg_name = peer: the ACK goes to the source address of the
\* datagram it answers
Reply(adv, p, ack) ==
    IF p.from = "sender"
    THEN r2s' = Put(adv, r2s, {ack}) /\ r2x' = r2x
    ELSE r2x' = r2x (+) SetToBag({ack}) /\ r2s' = r2s

\* type == PKT_START && seq == 0
OnStart(adv, p, len) ==
    IF StartOpens(started) /\ len # START_PAYLOAD
    THEN RxUnchanged
    ELSE LET opens == StartOpens(started)
             total == FromBE(SubSeq(p.body, 1, START_PAYLOAD))
             cum == IF opens THEN 0 ELSE cum_ack
         IN  /\ IF opens
                THEN /\ expected_total' = total
                     /\ rx_total_segs' = SegCount(total)
                     /\ have' = [s \in 1..SegCount(total) |-> FALSE]
                     /\ sink' = NewSink(total)
                     /\ started' = TRUE
                ELSE UNCHANGED << expected_total, rx_total_segs, have, sink,
                                  started >>
             /\ cum_ack' = cum
             /\ Reply(adv, p, AckPacket(ReportedCum(cum), 0, "START"))
             /\ UNCHANGED << rpc, received >>

\* mutant: every segment counted as a full one
ReceivedAfter_Mut(rcv, len) == rcv + payload_max

\* received += len
ReceivedAfter(rcv, len) == rcv + len

\* mutant: a segment already held is taken as new
IsNew_Mut(hv, seq) == TRUE

\* if (!have[seq])
IsNew(hv, seq) == ~hv[seq]

\* type == PKT_DATA
OnData(adv, p, seq, len) ==
    IF seq = 0 \/ seq > rx_total_segs
    THEN RxUnchanged
    ELSE IF IsNew(have, seq) /\ len > payload_max
    THEN RxUnchanged
    ELSE LET hv == IF IsNew(have, seq) THEN HaveAfter(have, seq) ELSE have
             cum == IF IsNew(have, seq)
                    THEN AdvanceCum(hv, cum_ack, rx_total_segs)
                    ELSE cum_ack
         IN  /\ IF IsNew(have, seq)
                THEN /\ \E bytes \in CopiedBytes(p, len) :
                          sink' = WriteAt(sink, SegOffset(seq), bytes)
                     /\ received' = ReceivedAfter(received, len)
                ELSE UNCHANGED << sink, received >>
             /\ have' = hv
             /\ cum_ack' = cum
             /\ Reply(adv, p, AckPacket(ReportedCum(cum),
                                       SackMask(hv, cum, rx_total_segs), "DATA"))
             /\ UNCHANGED << rpc, started, expected_total, rx_total_segs >>

\* type == PKT_END
OnEnd(adv, p) ==
    /\ Reply(adv, p, AckPacket(ReportedCum(cum_ack),
                              SackMask(have, cum_ack, rx_total_segs), "END"))
    /\ rpc' = IF EndFinishes(cum_ack, rx_total_segs)
              THEN ExitCode(expected_total, received)
              ELSE rpc
    /\ UNCHANGED << started, expected_total, rx_total_segs, cum_ack, have,
                    received, sink >>

\* one turn of the receive loop on datagram p
Handle(adv, p) ==
    LET seq == FromBE(p.seq)
        len == FromBE(p.len)
    IN  IF DatagramSize(p) < HDR THEN RxUnchanged
        ELSE IF p.type = PKT_START /\ seq = 0 THEN OnStart(adv, p, len)
        ELSE IF ~started THEN RxUnchanged
        ELSE IF p.type = PKT_DATA THEN OnData(adv, p, seq, len)
        ELSE IF p.type = PKT_END THEN OnEnd(adv, p)
        ELSE RxUnchanged

\* while (!finished): recvfrom blocks until a datagram arrives
ReceiveEnv(adv) ==
    /\ rpc = "loop"
    /\ \E p \in BagToSet(s2r) :
          /\ s2r' = Take(adv, s2r, p)
          /\ Handle(adv, p)
    /\ UNCHANGED << paramVars, senderVars, endAckLost, injected >>

\* ------------------------------------------------------------ environment

\* the transport loses the first ACK that answers an END, and nothing else
DropEndAck ==
    /\ ~endAckLost
    /\ \E a \in BagToSet(r2s) :
          /\ a.re = "END"
          /\ r2s' = r2s (-) SetToBag({a})
    /\ endAckLost' = TRUE
    /\ UNCHANGED << paramVars, senderVars, receiverVars, s2r, r2x, injected >>

\* signal-driven shutdown of a peer in mid-session: no further protocol action
KillSender ==
    /\ spc \notin {"done", "failed", "killed"}
    /\ rpc = "loop"
    /\ spc' = "killed"
    /\ UNCHANGED << t, base, next_to_send, acked, tx_cnt, handed >>
    /\ UNCHANGED << paramVars, receiverVars, s2r, r2s, endAckLost, r2x, injected >>

KillReceiver ==
    /\ rpc = "loop"
    /\ spc \notin {"done", "failed", "killed"}
    /\ rpc' = "killed"
    /\ UNCHANGED << started, expected_total, rx_total_segs, cum_ack, have,
                    received, sink >>
    /\ UNCHANGED << paramVars, senderVars, s2r, r2s, endAckLost, r2x, injected >>

\* a datagram cut short on its way: its last payload byte is missing, the
\* header still announces it
Truncated(p) == [p EXCEPT !.body = SubSeq(p.body, 1, Len(p.body) - 1)]

\* datagrams that reach the receiver's port besides the sender's own: copies
\* the network made of START and DATA, a START announcing another length, a
\* START of another host, DATA cut short
Strays ==
    {StartPacket(total_bytes), StartPacket(total_bytes + 1)}
    \cup {[StartPacket(total_bytes) EXCEPT !.from = "other"]}
    \cup {DataPacket(s, total_bytes) : s \in 1..total_segs}
    \cup {Truncated(DataPacket(s, total_bytes)) : s \in 1..total_segs}

\* an ACK cut short that reaches the sender's socket
StrayAcks == {[AckPacket(0, 0, "-") EXCEPT !.body = << >>]}

\* the network delivers a stray datagram to a peer that is still running
Inject ==
    /\ injected < MaxInject
    /\ \/ /\ rpc = "loop"
          /\ \E p \in Strays : s2r' = s2r (+) SetToBag({p})
          /\ r2s' = r2s
       \/ /\ spc \notin {"done", "failed", "killed"}
          /\ \E a \in StrayAcks : r2s' = r2s (+) SetToBag({a})
          /\ s2r' = s2r
    /\ injected' = injected + 1
    /\ UNCHANGED << paramVars, senderVars, receiverVars, endAckLost, r2x >>

\* -------------------------------------------------------- specifications

\* the sender over a transport that may fail a send and delay any answer
HsSend == HsSendEnv(TRUE)
HsRecv == HsRecvEnv(TRUE)
Emit == EmitEnv(TRUE)
BulkRecv == BulkRecvEnv(TRUE)
EndSend == EndSendEnv(TRUE)
EndRecv == EndRecvEnv(TRUE)
Receive == ReceiveEnv(TRUE)

\* the sender over a loss-free, timely transport
HsSendLF == HsSendEnv(FALSE)
HsRecvLF == HsRecvEnv(FALSE)
EmitLF == EmitEnv(FALSE)
BulkRecvLF == BulkRecvEnv(FALSE)
EndSendLF == EndSendEnv(FALSE)
EndRecvLF == EndRecvEnv(FALSE)
ReceiveLF == ReceiveEnv(FALSE)

Next ==
    \/ HsSend \/ HsRecv \/ Emit \/ BulkRecv \/ EndSend \/ EndRecv
    \/ Receive

\* any loss, duplication, reordering and delay; any send may fail
Spec == Init /\ [][Next]_vars

SenderLF ==
    HsSendLF \/ HsRecvLF \/ EmitLF \/ BulkRecvLF \/ EndSendLF \/ EndRecvLF

NextLF == SenderLF \/ ReceiveLF

\* both mains keep running: each takes its next step when it can
Fairness == WF_vars(SenderLF) /\ WF_vars(ReceiveLF)

\* loss-free channel: every datagram sent is delivered, once
SpecLF == Init /\ [][NextLF]_vars /\ Fairness

NextEndAck == NextLF \/ DropEndAck

\* loss-free channel but for the first END-ACK
SpecEndAck == Init /\ [][NextEndAck]_vars /\ Fairness

NextShutdown == NextLF \/ KillSender \/ KillReceiver

\* loss-free channel, and either peer may be shut down in mid-session
SpecShutdown == Init /\ [][NextShutdown]_vars /\ Fairness

NextInject == NextLF \/ Inject

\* loss-free channel on which stray datagrams turn up
SpecInject == Init /\ [][NextInject]_vars


\* ------------------------------------------------------------------ claims

\* the whole input file, as the sender maps it
Source == SourceBytes(0, total_bytes)

\* bytes of segment k in the output file equal those of the input file
SegmentWritten(k) ==
    \A i \in (SegOffset(k) + 1)..(SegOffset(k) + SegLen(k, total_bytes)) :
        i \in DOMAIN sink /\ sink[i] = SourceByte(i - 1)

\* C1: whenever a peer has terminated successfully (the sender returned 0
\* after the END loop, or the receiver left its loop and returned 0), the
\* output file equals the input file byte for byte.
C1_SinkEqualsSource ==
    (spc = "done" \/ rpc = "exit0") => sink = Source

\* both peers succeeded on a file of several segments, one of which had to
\* be transmitted more than once
C1_Witness ==
    /\ spc = "done"
    /\ rpc = "exit0"
    /\ total_segs >= 2
    /\ \E k \in DOMAIN tx_cnt : tx_cnt[k] >= 2

\* C3: a segment the sender holds as acked is held by the receiver and is
\* written in the output file at its offset; hence base > total_segs on the
\* sender implies cum_ack = total_segs on the receiver.
C3_AckedImpliesWritten ==
    /\ \A k \in DOMAIN acked :
          acked[k] => /\ started
                      /\ k \in DOMAIN have
                      /\ have[k]
                      /\ SegmentWritten(k)
    /\ base > total_segs => started /\ cum_ack = total_segs

\* a segment was acked through the SACK mask while an earlier one is missing
C3_Witness ==
    \E k \in DOMAIN acked : k >= 2 /\ acked[k] /\ ~acked[1] /\ ~have[1]

\* C4: cum_ack on the receiver and base on the sender never decrease from
\* one step to the next.
C4_Monotone ==
    [][cum_ack' >= cum_ack /\ base' >= base]_vars

\* both have advanced and an ACK older than both is still in flight
C4_Witness ==
    /\ base >= 3
    /\ cum_ack >= 2
    /\ \E a \in BagToSet(r2s) : AckCum(a) = 0
    /\ BagIn(StartPacket(total_bytes), s2r)

\* C5: whenever have[k] is set the bytes of segment k in the output file
\* equal those of the input file, and a step of the receiver changes no byte
\* of the output file outside the segment whose have[] it sets in that step.
C5_WrittenAtOwnOffset ==
    /\ [](started => \A k \in DOMAIN have : have[k] => SegmentWritten(k))
    /\ [][started =>
            /\ DOMAIN sink' = DOMAIN sink
            /\ \A i \in DOMAIN sink :
                  sink'[i] # sink[i] =>
                     \E k \in DOMAIN have :
                        /\ ~have[k]
                        /\ have'[k]
                        /\ SegOffset(k) < i
                        /\ i <= SegOffset(k) + SegLen(k, total_bytes)]_vars

\* the last, short segment of three is in the output file before the second
C5_Witness ==
    /\ started
    /\ rx_total_segs = 3
    /\ have[3]
    /\ ~have[2]
    /\ SegmentWritten(3)
    /\ SegLen(3, total_bytes) < payload_max

\* C6: a segment is acked, and the bulk loop is left, only after the
\* transport took at least one DATA datagram of it, and the transport never
\* takes more than `retries` DATA datagrams of one segment.
C6_TransmitBounds ==
    \A k \in DOMAIN handed :
        /\ acked[k] => handed[k] >= 1
        /\ spc \in {"end_send", "end_recv", "done"} => handed[k] >= 1
        /\ handed[k] <= retries

\* a session that succeeded after a segment was transmitted `retries` times
C6_Witness ==
    /\ spc = "done"
    /\ retries >= 2
    /\ \E k \in DOMAIN handed : handed[k] = retries


\* C2: over a loss-free channel the session eventually terminates on both
\* peers, and then the output file equals the input file.
C2_LossFreeCompletes ==
    <>(spc = "done" /\ rpc = "exit0" /\ sink = Source)

\* C2 as amended: over a loss-free channel the sender always terminates, by
\* returning 0 or by giving up, and whenever it has returned 0 the receiver
\* eventually returns 0 with the output file equal to the input file.
C2_Amended ==
    /\ <>(spc \in {"done", "failed"})
    /\ (spc = "done") ~> (rpc = "exit0" /\ sink = Source)

\* both peers returned 0 on a file of three segments sent through a window
\* of two
C2_Witness ==
    /\ spc = "done"
    /\ rpc = "exit0"
    /\ sink = Source
    /\ total_segs = 3
    /\ win = 2

\* C7: in a single-segment transfer (total_bytes = payload_max) with a retry
\* cap that allows a retransmission, where the transport loses the ACK of
\* the first END and nothing else, the sender ends by returning 0.
C7_EndAckRace ==
    ( /\ total_bytes = payload_max
      /\ retries >= 2
      /\ endAckLost
      /\ spc \in {"done", "failed"} )
    => spc = "done"

\* C8: the sender has returned 0 only if the receiver has taken an END with
\* cum_ack = total_segs and left its loop; an ACK that answers a START or a
\* DATA datagram does not end the sender's END loop.
C8_DoneOnlyOnEndAck ==
    spc = "done" => rpc \in {"exit0", "exit1"}

\* C9: never has one peer terminated successfully while the other has
\* terminated in failure.
C9_NoPartialSuccess ==
    /\ ~(rpc = "exit0" /\ spc = "failed")
    /\ ~(spc = "done" /\ rpc = "exit1")

\* C9 as amended: the receiver never returns 1 in a session the sender
\* completed, and a sender that returned 0 leaves the whole payload in the
\* output file; the receiver may return 0 while the sender fails, but only
\* when the sender failed in its END loop, after every segment was acked
\* and written.
C9_Amended ==
    /\ spc = "done" => rpc # "exit1" /\ sink = Source /\ cum_ack = total_segs
    /\ (rpc = "exit0" /\ spc = "failed") =>
          /\ base > total_segs
          /\ t = retries - 1
          /\ sink = Source

\* the receiver returned 0 and the sender gave up on END
C9_Witness ==
    /\ rpc = "exit0"
    /\ spc = "failed"
    /\ total_segs >= 2

\* C10: when the sender is shut down in mid-session and stays silent, the
\* receiver eventually leaves its receive loop.
C10_SurvivorTerminates ==
    (spc = "killed") ~> (rpc # "loop")

\* the destination has been silent from the start: it was shut down before
\* it handled any datagram
Silent == rpc = "killed" /\ ~started

\* C11: when the destination never answers, the sender puts START on the wire
\* and nothing else, it ends in Failed and in no other way, and by then it
\* has sent START exactly `retries` times.
C11_HandshakeExhaustion ==
    /\ [](Silent =>
            /\ \A p \in BagToSet(s2r) : p = StartPacket(total_bytes)
            /\ spc \in {"hs_send", "hs_recv", "failed"}
            /\ CopiesIn(StartPacket(total_bytes), s2r) <= retries
            /\ spc = "failed" =>
                   CopiesIn(StartPacket(total_bytes), s2r) = retries)
    /\ (Silent ~> spc = "failed")

C11_Witness ==
    /\ Silent
    /\ spc = "failed"
    /\ retries >= 2
    /\ CopiesIn(StartPacket(total_bytes), s2r) = retries

\* ACK a is one the receiver puts on the wire to the sender in this step
EmittedNow(a) ==
    /\ a.re \in {"START", "DATA", "END"}
    /\ CopiesIn(a, r2s') > CopiesIn(a, r2s)

\* bit i of the mask of ACK a is set exactly when segment cum + 1 + i is one
\* of 1..n and hv has it
MaskTells(a, hv, n) ==
    \A i \in 0..(SACK_BITS - 1) :
        BitSet(AckMask(a), i) <=>
            /\ AckCum(a) + 1 + i \in 1..n
            /\ hv[AckCum(a) + 1 + i]

\* C12: every ACK the receiver emits, whether it answers START, DATA or END,
\* has bit i of sack_mask set if and only if segment cum_ack + 1 + i is
\* within 1..N and is held in have[] when the ACK is built.
C12_SackMaskExact ==
    [][\A a \in BagToSet(r2s') :
          EmittedNow(a) =>
              /\ AckCum(a) = cum_ack'
              /\ MaskTells(a, have', rx_total_segs')]_vars

\* datagram p is the one the receiver takes off the wire in this step
TakenNow(p) == CopiesIn(p, s2r') < CopiesIn(p, s2r)

\* nothing leaves the receiver in this step
NothingSent == r2s' = r2s /\ r2x' = r2x

\* C13: while a session is active, a START from a host other than the one
\* that opened the session is ignored: the receiver's state does not change
\* and no datagram is sent in answer.
C13_ForeignStartIgnored ==
    [][\A p \in BagToSet(s2r) :
          (started /\ TakenNow(p) /\ p.type = PKT_START /\ p.from = "other")
              => UNCHANGED receiverVars /\ NothingSent]_vars

\* the header of p announces more payload than the datagram carries
ShortOfLen(p) == FromBE(p.len) + HDR > DatagramSize(p)

\* ACK a is the datagram the sender takes off the wire in this step
AckTakenNow(a) == CopiesIn(a, r2s') < CopiesIn(a, r2s)

\* the receiver drops a datagram shorter than its header says
ReceiverRejectsShort ==
    \A p \in BagToSet(s2r) :
        (TakenNow(p) /\ ShortOfLen(p)) => UNCHANGED receiverVars /\ NothingSent

\* the sender drops a datagram shorter than its header says
SenderRejectsShort ==
    \A a \in BagToSet(r2s) :
        (AckTakenNow(a) /\ ShortOfLen(a)) => acked' = acked /\ base' = base

\* C14: a datagram whose len field plus the 7-byte header exceeds the bytes
\* received is rejected by both peers: the receiver neither writes it, sets
\* have[] nor answers it, and the sender does not update acked[] or base.
C14_ShortDatagramRejected ==
    [][ReceiverRejectsShort /\ SenderRejectsShort]_vars

\* c is a cumulative position of hv: every segment up to c is held
Contiguous(hv, c) == \A j \in 1..c : hv[j]

\* C15: once a session is open, cum_ack is the largest c in 0..N with have[j]
\* for every j <= c, whatever START, DATA and END datagrams arrived, in
\* whatever order and however often; and no step clears a have[k] that is set.
C15_CumAckIsPrefix ==
    /\ [](started =>
            /\ cum_ack \in 0..rx_total_segs
            /\ Contiguous(have, cum_ack)
            /\ \A c \in 0..rx_total_segs : Contiguous(have, c) => c <= cum_ack)
    /\ [][\A k \in DOMAIN have :
             have[k] => k \in DOMAIN have' /\ have'[k]]_vars

C15_Witness ==
    /\ started
    /\ rx_total_segs = 3
    /\ cum_ack = 1
    /\ have[3]
    /\ ~have[2]
    /\ BagIn(StartPacket(total_bytes), s2r)
    /\ BagIn(DataPacket(1, total_bytes), s2r)

\* in this step the receiver sends the sender one ACK that carries cum, and
\* nothing else to anyone
OneAckSent(cum) ==
    /\ r2x' = r2x
    /\ \E a \in BagToSet(r2s') :
          /\ r2s' = r2s (+) SetToBag({a})
          /\ IsAck(a)
          /\ Len(a.body) = ACK_PAYLOAD
          /\ AckCum(a) = cum

\* C16: a START that arrives from the sender after the session has started
\* leaves have[], cum_ack, received, expected_total, total_segs and the sink
\* as they are, even when it announces another length, and is answered by
\* exactly one ACK that carries the current cum_ack.
C16_LaterStartIdempotent ==
    [][\A p \in BagToSet(s2r) :
          (started /\ TakenNow(p) /\ p.type = PKT_START /\ FromBE(p.seq) = 0
             /\ p.from = "sender")
              => UNCHANGED receiverVars /\ OneAckSent(cum_ack)]_vars

C16_Witness ==
    /\ started
    /\ expected_total = total_bytes
    /\ injected = 1
    /\ cum_ack >= 1
    /\ \E a \in BagToSet(r2s) : a.re = "START" /\ AckCum(a) = cum_ack

\* p is a DATA datagram for a segment of the session that is already held
DuplicateData(p) ==
    /\ started
    /\ p.type = PKT_DATA
    /\ FromBE(p.seq) \in 1..rx_total_segs
    /\ have[FromBE(p.seq)]

\* C17: a DATA datagram whose segment is already held leaves have[], cum_ack,
\* received and the sink (all of the receiver's state) unchanged and makes
\* the receiver emit exactly one more ACK.
C17_DuplicateDataIdempotent ==
    [][\A p \in BagToSet(s2r) :
          (TakenNow(p) /\ DuplicateData(p) /\ p.from = "sender")
              => UNCHANGED receiverVars /\ OneAckSent(cum_ack)]_vars

C17_Witness ==
    /\ injected = 1
    /\ rpc = "loop"
    /\ rx_total_segs >= 2
    /\ have = [s \in 1..rx_total_segs |-> s = 1]
    /\ received = payload_max
    /\ s2r = SetToBag({DataPacket(2, total_bytes)})
    /\ BagCardinality(r2s) = 2
    /\ \A a \in BagToSet(r2s) : a.re = "DATA" /\ AckCum(a) = 1

\* every segment ACK a acknowledges, by its cum_ack or by its mask, is
\* already marked in acked[]
Covered(a) ==
    \A s \in DOMAIN acked :
        (\/ s <= AckCum(a)
         \/ /\ s - (AckCum(a) + 1) \in 0..(SACK_BITS - 1)
            /\ BitSet(AckMask(a), s - (AckCum(a) + 1)))
            => acked[s]

\* C18: processing an ACK whose cum_ack and mask are covered by acked[] (an
\* ACK processed before, or a stale one) leaves acked[] and base as they
\* are; the pass of the bulk loop that processes an ACK leaves next_to_send
\* alone and changes tx_cnt[] only by its retransmissions, of segments still
\* unacked inside the window; and no step clears an acked[k].
C18_CoveredAckIdempotent ==
    /\ [](spc = "recv" =>
            \A a \in BagToSet(r2s) :
                (IsBulkAck(a) /\ Covered(a)) =>
                    /\ AckedAfter(acked, base, a) = acked
                    /\ BaseAfter(acked, base, a) = base)
    /\ [][spc = "recv" =>
             /\ next_to_send' = next_to_send
             /\ \A k \in DOMAIN tx_cnt :
                   tx_cnt'[k] # tx_cnt[k] =>
                       /\ ~acked'[k]
                       /\ base' <= k /\ k < next_to_send
                       /\ tx_cnt'[k] = tx_cnt[k] + 1]_vars
    /\ [][\A k \in DOMAIN acked : acked[k] => acked'[k]]_vars

C18_Witness ==
    /\ spc = "recv"
    /\ base = 1
    /\ ~acked[1]
    /\ \E a \in BagToSet(r2s) :
          /\ IsBulkAck(a)
          /\ AckCum(a) = 0
          /\ AckMask(a) # 0
          /\ Covered(a)
    /\ \E a \in BagToSet(r2s) : IsBulkAck(a) /\ AckCum(a) >= 1 /\ ~Covered(a)

\* C19: for every segment k, tx_cnt[k] > 0 if and only if a DATA datagram
\* of segment k was handed to the transport, also when send calls fail.
C19_TxCountIffSent ==
    \A k \in DOMAIN tx_cnt : tx_cnt[k] > 0 <=> handed[k] > 0

\* segments transmitted and not yet acknowledged
Outstanding == { k \in DOMAIN acked : handed[k] > 0 /\ ~acked[k] }

\* C20: at every pass of the bulk loop, before and after step 1, and when
\* the loop is left for END: 1 <= base <= next_to_send <= N + 1,
\* next_to_send - base <= W, every segment below base is acked, base is
\* unacked when base <= N, and at most W segments are transmitted and
\* unacknowledged.
C20_WindowInvariant ==
    spc \in {"emit", "recv", "end_send"} =>
        /\ 1 <= base
        /\ base <= next_to_send
        /\ next_to_send <= total_segs + 1
        /\ next_to_send - base <= win
        /\ \A k \in DOMAIN acked : k < base => acked[k]
        /\ base <= total_segs => ~acked[base]
        /\ Cardinality(Outstanding) <= win
        /\ \A k \in DOMAIN tx_cnt : tx_cnt[k] > 0 => k < next_to_send

C20_Witness ==
    /\ spc = "emit"
    /\ win = 2
    /\ base = 2
    /\ next_to_send = 4
    /\ Outstanding = {2, 3}

RECURSIVE HeldBytes(_, _, _)
\* the sum of the lengths of the segments 1..k that hv holds, for a transfer
\* of `total` bytes
HeldBytes(hv, k, total) ==
    IF k = 0 THEN 0
    ELSE HeldBytes(hv, k - 1, total) + (IF hv[k] THEN SegLen(k, total) ELSE 0)

\* C21: with one sender and one receiver of the same payload size, received
\* is always the sum of length(k) over the segments k with have[k] set; so
\* when the receiver leaves its loop (cum_ack = N after END) received equals
\* the announced total, and the exit with code 1 on a size mismatch is never
\* reached.
C21_ReceivedIsSumOfHeld ==
    /\ ~started => received = 0
    /\ started =>
          /\ expected_total = total_bytes
          /\ received = HeldBytes(have, rx_total_segs, expected_total)
    /\ rpc # "exit1"
    /\ rpc = "exit0" => cum_ack = rx_total_segs /\ received = expected_total

C21_Witness ==
    /\ rpc = "exit0"
    /\ rx_total_segs = 3
    /\ SegLen(3, total_bytes) < payload_max
    /\ received = total_bytes
    /\ \E k \in DOMAIN tx_cnt : tx_cnt[k] >= 2

====
